---- MODULE Spec2Model ----
(***************************************************************************)
(* Model of rpi-dht22-mqtt: the DHT22 pulse decoder (rpi-gpio/dht22.rs)    *)
(* and the connect / acquire / publish / reconnect loop of the two         *)
(* bridges (light/main.rs, temperature/main.rs).                           *)
(*                                                                         *)
(* Array indices are the source's (0-based): At(a, i) is a[i].             *)
(* A Reading's f32 fields are kept as sign and magnitude in tenths: the    *)
(* source divides a u16 by 10.0 and, for the temperature, multiplies by    *)
(* -1.0 when bit 7 of data[2] is set, which flips the sign bit and leaves  *)
(* the magnitude alone (so magnitude 0 with the bit set is -0.0).          *)
(***************************************************************************)
EXTENDS Integers, Sequences, FiniteSets, TLC

VARIABLES
    \* ---- dht22::decode ----
    arr,        \* decode's argument; inside read, `pulse_counts`
    dpc,        \* position inside decode
    threshold,  \* the local `threshold`
    data,       \* the local `data: [u8; 5]`
    result,     \* what decode or read returns
    \* ---- dht22::read ----
    cpc,        \* position inside read
    c,          \* the loop variable `c` of the 41 pulses
    count,      \* the local `count` of the acknowledgment wait
    samples,    \* calls of gpio.read() in this call of read
    msg,        \* the five bytes the sensor sends in this call of read
    \* ---- the bridges' main loops ----
    bridge,     \* which binary runs: "light" or "temperature"
    paths,      \* which of the CA, client certificate, client key paths are set
    delay,      \* temperature bridge: `delay`, in milliseconds
    pc,         \* position of the main task
    transport,  \* the transport of the latest `mqttoptions`
    previous,   \* light bridge: `previous: Option<bool>` (<<>> is None)
    light,      \* light bridge: the value just read, <<>> when none
    handle,     \* the current event_loop_handle's task: none, running, finished
    running,    \* number of spawned watcher tasks still running
    clients,    \* number of live (client, eventloop) pairs' clients
    lastEvent,  \* the last Ok event the watcher's poll returned
    sessions,   \* sessions started so far (saturates at MaxSessions)
    hist,       \* light bridge: the last MaxHist successful probes
    \* ---- since the latest acquisition began ----
    lastAcq,    \* how it ended: none (not yet), ok, Timeout, Checksum, Gpio
    gap,        \* milliseconds slept in timed sleeps
    pubs,       \* calls of client.publish
    payload,    \* temperature bridge: the data handed to publish, <<>> when none
    pubOutcome  \* what publish returned: none (not yet), ok, err

decVars == <<arr, dpc, threshold, data, result>>
capVars == <<cpc, c, count, samples, msg>>
cfgVars == <<bridge, paths, delay>>
sessVars == <<pc, transport, previous, light, handle, running, clients, lastEvent, sessions, hist>>
acqVars == <<lastAcq, gap, pubs, payload, pubOutcome>>
supVars == <<bridge, paths, delay, pc, transport, previous, light, handle, running, clients,
             lastEvent, sessions, hist, lastAcq, gap, pubs, payload, pubOutcome>>
vars == <<arr, dpc, threshold, data, result,
          cpc, c, count, samples, msg,
          bridge, paths, delay, pc, transport, previous, light, handle, running, clients,
          lastEvent, sessions, hist, lastAcq, gap, pubs, payload, pubOutcome>>

\* ------------------------------------------------------------------------
\* Constants of the program
\* ------------------------------------------------------------------------
MAX_COUNT == 32000
DHT_PULSES == 41
U8 == 256
U16 == 65536

\* ------------------------------------------------------------------------
\* Bounds of the model
\* ------------------------------------------------------------------------
MaxSessions == 3
MaxHist == 3
MaxDelay == 2

\* ------------------------------------------------------------------------
\* dht22::decode
\* ------------------------------------------------------------------------
At(a, i) == a[i + 1]

\* A threshold loop that steps by one: every entry from i on is added.
ThresholdSumEvery(a, i, acc) ==
    LET from[k \in i..(DHT_PULSES * 2)] ==
            IF k = DHT_PULSES * 2 THEN 0 ELSE At(a, k) + from[k + 1]
    IN  acc + from[i]

\* `while i < DHT_PULSES * 2 { threshold += arr[i]; i += 2; }`
RECURSIVE ThresholdSum(_, _, _)
ThresholdSum(a, i, acc) ==
    IF i < DHT_PULSES * 2
    THEN ThresholdSum(a, i + 2, acc + At(a, i))
    ELSE acc

\* A threshold loop that starts at the sync pair.
ThresholdFromSync(a) == ThresholdSum(a, 0, 0) \div (DHT_PULSES - 1)

\* `let mut i = 2; ...; threshold /= DHT_PULSES - 1;`
Threshold(a) == ThresholdSum(a, 2, 0) \div (DHT_PULSES - 1)

\* A strict comparison.
LongPulseStrict(v, th) == v > th

\* A comparison with the polarity reversed.
LongPulseInverted(v, th) == v < th

\* `arr[i] >= threshold`
LongPulse(v, th) == v >= th

\* `data[index] <<= 1` on a u8
Shl1(x) == (x * 2) % U8

\* `data[index] |= 1`
Or1(x) == IF x % 2 = 1 THEN x ELSE x + 1

\* The second loop: `i = 3; while i < DHT_PULSES * 2 { ...; i += 2; }`
RECURSIVE BitsLoop(_, _, _, _)
BitsLoop(a, th, i, d) ==
    IF i < DHT_PULSES * 2
    THEN LET index == (i - 3) \div 16
             shifted == [d EXCEPT ![index + 1] = Shl1(@)]
             next == IF LongPulse(At(a, i), th)
                     THEN [shifted EXCEPT ![index + 1] = Or1(@)]
                     ELSE shifted
         IN  BitsLoop(a, th, i + 2, next)
    ELSE d

\* `x.wrapping_add(y)` on u8
WrappingAdd(x, y) == (x + y) % U8

\* A check that leaves data[3] out of the sum.
ChecksumOkThree(d) ==
    At(d, 4) = WrappingAdd(WrappingAdd(At(d, 0), At(d, 1)), At(d, 2))

\* The negation of the `if data[4] != data[0].wrapping_add(...)...` condition
ChecksumOk(d) ==
    At(d, 4) = WrappingAdd(WrappingAdd(WrappingAdd(At(d, 0), At(d, 1)), At(d, 2)), At(d, 3))

\* Humidity built from the wrong low byte.
HumRawWrongByte(d) == (At(d, 0) * 256 + At(d, 3)) % U16

\* `h_dec = u16::from(data[0]) * 256 + u16::from(data[1])`
HumRaw(d) == (At(d, 0) * 256 + At(d, 1)) % U16

\* `x & 0x7f`
And7F(x) == x % 128

\* `x & 0x80`
And80(x) == ((x \div 128) % 2) * 128

\* Temperature built without masking the sign bit.
TempRawNoMask(d) == (At(d, 2) * 256 + At(d, 3)) % U16

\* `t_dec = u16::from(data[2] & 0x7f) * 256 + u16::from(data[3])`
TempRaw(d) == (And7F(At(d, 2)) * 256 + At(d, 3)) % U16

\* `if (data[2] & 0x80) != 0 { t *= -1.0f32; }`
TempNeg(d) == And80(At(d, 2)) /= 0

\* decode has not returned
NoResult == [kind |-> "none", neg |-> FALSE, t_dec |-> 0, h_dec |-> 0]
\* `Result::Err(ReadingError::Checksum)`
ErrChecksum == [kind |-> "Checksum", neg |-> FALSE, t_dec |-> 0, h_dec |-> 0]
\* `Result::Ok(Reading { temperature: t, humidity: h })`
Reading(d) == [kind |-> "Reading", neg |-> TempNeg(d), t_dec |-> TempRaw(d), h_dec |-> HumRaw(d)]

\* lines 47-56: the threshold
DecodeThreshold ==
    /\ dpc = "threshold"
    /\ threshold' = Threshold(arr)
    /\ dpc' = "bits"
    /\ UNCHANGED <<arr, data, result>>
    /\ UNCHANGED <<capVars, supVars>>

\* lines 58-70: the 40 bits, packed into 5 bytes
DecodeBits ==
    /\ dpc = "bits"
    /\ data' = BitsLoop(arr, threshold, 3, <<0, 0, 0, 0, 0>>)
    /\ dpc' = "checksum"
    /\ UNCHANGED <<arr, threshold, result>>
    /\ UNCHANGED <<capVars, supVars>>

\* lines 72-79: the checksum does not match
DecodeChecksumErr ==
    /\ dpc = "checksum"
    /\ ~ChecksumOk(data)
    /\ result' = ErrChecksum
    /\ dpc' = "done"
    /\ UNCHANGED <<arr, threshold, data>>
    /\ UNCHANGED <<capVars, supVars>>

\* lines 81-93: the conversion
DecodeConvert ==
    /\ dpc = "checksum"
    /\ ChecksumOk(data)
    /\ result' = Reading(data)
    /\ dpc' = "done"
    /\ UNCHANGED <<arr, threshold, data>>
    /\ UNCHANGED <<capVars, supVars>>

NextDecode ==
    \/ DecodeThreshold
    \/ DecodeBits
    \/ DecodeChecksumErr
    \/ DecodeConvert

\* ------------------------------------------------------------------------
\* Input trains
\* ------------------------------------------------------------------------
\* Bit k (0..39, transmission order) of five bytes sent most significant first.
SentBit(bytes, k) == (bytes[(k \div 8) + 1] \div (2 ^ (7 - (k % 8)))) % 2

\* The train a sensor sending `bytes` produces: sync pair s0, s1, then for each
\* bit a low phase of `lo` counts and a high phase of `short` or `long` counts.
Encode(bytes, s0, s1, lo, short, long) ==
    [j \in 1..(DHT_PULSES * 2) |->
        IF j = 1 THEN s0
        ELSE IF j = 2 THEN s1
        ELSE IF j % 2 = 1 THEN lo
        ELSE IF SentBit(bytes, (j - 4) \div 2) = 1 THEN long ELSE short]

\* tests::from_spec_positive_temp
TrainPositive ==
    <<80, 80,
      50, 26, 50, 26, 50, 26, 50, 26, 50, 26, 50, 26, 50, 70, 50, 26, 50, 70, 50, 26, 50, 26,
      50, 26, 50, 70, 50, 70, 50, 26, 50, 26,
      50, 26, 50, 26, 50, 26, 50, 26, 50, 26, 50, 26, 50, 26, 50, 70, 50, 26, 50, 70, 50, 26,
      50, 70, 50, 70, 50, 70, 50, 70, 50, 70,
      50, 70, 50, 70, 50, 70, 50, 26, 50, 70, 50, 70, 50, 70, 50, 26>>

\* tests::from_spec_negative_temp
TrainNegative ==
    <<80, 80,
      50, 26, 50, 26, 50, 26, 50, 26, 50, 26, 50, 26, 50, 70, 50, 26, 50, 70, 50, 26, 50, 26,
      50, 26, 50, 70, 50, 70, 50, 26, 50, 26,
      50, 70, 50, 26, 50, 26, 50, 26, 50, 26, 50, 26, 50, 26, 50, 26, 50, 26, 50, 70, 50, 70,
      50, 26, 50, 26, 50, 70, 50, 26, 50, 70,
      50, 26, 50, 70, 50, 70, 50, 70, 50, 26, 50, 26, 50, 70, 50, 70>>

\* tests::checksum
TrainBadChecksum ==
    <<80, 80,
      50, 26, 50, 26, 50, 26, 50, 26, 50, 70, 50, 26, 50, 70, 50, 26, 50, 70, 50, 26, 50, 26,
      50, 26, 50, 70, 50, 70, 50, 26, 50, 26,
      50, 70, 50, 26, 50, 26, 50, 26, 50, 26, 50, 26, 50, 26, 50, 26, 50, 26, 50, 70, 50, 70,
      50, 26, 50, 26, 50, 70, 50, 26, 50, 70,
      50, 26, 50, 70, 50, 70, 50, 70, 50, 26, 50, 26, 50, 70, 50, 70>>

\* tests::sample1
TrainSample1 ==
    <<458, 328,
      320, 101, 249, 153, 314, 153, 320, 154, 317, 153, 316, 153, 321, 431, 320, 147, 397,
      154, 315, 435, 316, 154, 320, 431, 320, 430, 319, 431, 320, 431, 320, 426,
      401, 148, 319, 154, 316, 154, 320, 150, 320, 154, 315, 154, 320, 149, 320, 148, 397,
      154, 319, 430, 321, 430, 321, 431, 320, 429, 318, 432, 320, 150, 320, 147,
      379, 434, 316, 434, 317, 153, 320, 431, 317, 435, 316, 435, 317, 153, 320, 425>>

FixtureTrains == {TrainPositive, TrainNegative, TrainBadChecksum, TrainSample1}

\* The wrapping sum a sensor appends to four data bytes.
SentChecksum(b0, b1, b2, b3) == (b0 + b1 + b2 + b3) % U8

\* Five-byte messages: a few values per data byte, with the right checksum, a
\* checksum off by one, and a checksum that leaves the last data byte out.
ByteTuples ==
    UNION {
        { <<b0, b1, b2, b3, SentChecksum(b0, b1, b2, b3)>>,
          <<b0, b1, b2, b3, (SentChecksum(b0, b1, b2, b3) + 1) % U8>>,
          <<b0, b1, b2, b3, SentChecksum(b0, b1, b2, 0)>> } :
        <<b0, b1, b2, b3>> \in {0, 1, 2, 255} \X {0, 140, 148, 255} \X {0, 1, 128, 255} \X {0, 95, 255} }

\* Messages whose trains are also tried with other timings and with one entry replaced.
BaseTuples ==
    { <<1, 148, 1, 95, 245>>, <<2, 140, 1, 95, 238>>, <<0, 0, 0, 0, 0>>,
      <<255, 255, 255, 255, 252>>, <<2, 95, 128, 124, 93>> }

\* (low, short high, long high) counts; the second and third make a high phase
\* equal to the mean of the low phases.
Timings == { <<50, 26, 70>>, <<50, 50, 70>>, <<50, 26, 50>>, <<320, 150, 430>> }

\* Values one entry of a train is replaced by.
ReplacedBy == {0, 50, 51, MAX_COUNT}

Replace(a, j, v) == [a EXCEPT ![j] = v]

CleanTrains == { Encode(b, 80, 80, 50, 26, 70) : b \in ByteTuples }

TimedTrains == { Encode(b, 80, 80, t[1], t[2], t[3]) : <<b, t>> \in BaseTuples \X Timings }

ReplacedTrains ==
    { Replace(Encode(b, 80, 80, 50, 26, 70), j, v) :
        <<b, j, v>> \in BaseTuples \X (1..(DHT_PULSES * 2)) \X ReplacedBy }

DecodeTrains == FixtureTrains \cup CleanTrains \cup TimedTrains \cup ReplacedTrains

\* The train for temp_hi = hi and temp_lo = lo with humidity bytes 2, 140 and a
\* checksum that matches (off = 0) or is off by one (off = 1).
TempTrain(hi, lo, off) ==
    Encode(<<2, 140, hi, lo, (SentChecksum(2, 140, hi, lo) + off) % U8>>, 80, 80, 50, 26, 70)

\* `mqttoptions` before the first connection attempt.
NoTransport == [kind |-> "none", client_auth |-> FALSE]

\* ------------------------------------------------------------------------
\* Specifications of decode
\* ------------------------------------------------------------------------
\* The main loops' and read's variables while only decode is looked at.
SupIdle ==
    /\ bridge = "none"
    /\ paths = [ca |-> FALSE, cert |-> FALSE, key |-> FALSE]
    /\ delay = 0
    /\ pc = "off"
    /\ transport = NoTransport
    /\ previous = <<>>
    /\ light = <<>>
    /\ handle = "none"
    /\ running = 0
    /\ clients = 0
    /\ lastEvent = "none"
    /\ sessions = 0
    /\ hist = <<>>
    /\ lastAcq = "none"
    /\ gap = 0
    /\ pubs = 0
    /\ payload = <<>>
    /\ pubOutcome = "none"
    /\ cpc = "decode"
    /\ c = DHT_PULSES - 1
    /\ count = 0
    /\ samples = 0
    /\ msg = <<>>

InitDecodeOn(trains) ==
    /\ arr \in trains
    /\ dpc = "threshold"
    /\ threshold = 0
    /\ data = <<0, 0, 0, 0, 0>>
    /\ result = NoResult
    /\ SupIdle

InitDecode == InitDecodeOn(DecodeTrains)

\* Every value of temp_hi and temp_lo with a matching checksum; and, for
\* temp_hi = 0, the same with a checksum off by one.
InitTemp ==
    \E hi \in 0..(U8 - 1), lo \in 0..(U8 - 1), off \in {0, 1} :
        /\ off = 1 => hi = 0
        /\ InitDecodeOn({TempTrain(hi, lo, off)})

DecodeSpec == InitDecode /\ [][NextDecode]_vars

\* (low, short high, long high) counts with entries at 0 and at the ceiling.
CeilingTimings ==
    { <<MAX_COUNT, MAX_COUNT, MAX_COUNT>>, <<0, 0, 0>>, <<MAX_COUNT, 0, MAX_COUNT>>,
      <<50, 26, MAX_COUNT>>, <<MAX_COUNT - 1, MAX_COUNT - 1, MAX_COUNT>> }

\* Trains no entry of which is above the ceiling, as read hands them to decode:
\* the messages of BaseTuples and the largest values of both fields, with the
\* sync pair and the phases at 0 and at the ceiling.
CeilingTrains ==
    { Encode(b, s, s, t[1], t[2], t[3]) :
        <<b, s, t>> \in (BaseTuples \cup { <<255, 255, 127, 255, 124>>, <<255, 255, 255, 254, 251>> })
                        \X {0, MAX_COUNT} \X CeilingTimings }

InitCeiling == InitDecodeOn(CeilingTrains \cup FixtureTrains)
CeilingSpec == InitCeiling /\ [][NextDecode]_vars
TempSpec == InitTemp /\ [][NextDecode]_vars

\* ------------------------------------------------------------------------
\* Properties of decode
\* ------------------------------------------------------------------------
\* The data-bit low-phase and high-phase indices of a train.
LowIdx == { i \in 2..(DHT_PULSES * 2 - 1) : i % 2 = 0 }
HighIdx == { i \in 2..(DHT_PULSES * 2 - 1) : i % 2 = 1 }

RECURSIVE SumOver(_, _)
SumOver(a, S) ==
    IF S = {} THEN 0
    ELSE LET i == CHOOSE x \in S : TRUE IN At(a, i) + SumOver(a, S \ {i})

\* Bit k (0..39) of the train as the comparison against the threshold reads it.
TrainBit(k) == IF At(arr, 3 + 2 * k) >= threshold THEN 1 ELSE 0

\* The number spelled by train bits from..to, most significant first.
RECURSIVE TrainNumber(_, _)
TrainNumber(from, to) ==
    IF from > to THEN 0
    ELSE 2 * TrainNumber(from, to - 1) + TrainBit(to)

\* Bit `pos` (7 is the most significant) of byte x.
BitOf(x, pos) == (x \div (2 ^ pos)) % 2

Decoded == dpc \in {"checksum", "done"}

\* C6 as stated: the threshold is the integer mean of the 40 data-bit
\* high-phase durations (indices 3, 5, ..., 81).
C6_ThresholdIsHighPhaseMean ==
    dpc /= "threshold" => threshold = SumOver(arr, HighIdx) \div 40

\* C6 amended: the threshold is the integer mean of the 40 data-bit low-phase
\* durations (indices 2, 4, ..., 80); no sync entry and no high-phase entry
\* contributes to it.
C6_ThresholdIsLowPhaseMean ==
    dpc /= "threshold" =>
        /\ Cardinality(LowIdx) = 40
        /\ threshold = SumOver(arr, LowIdx) \div 40

\* A train whose sync entry is at the ceiling and whose high-phase mean differs
\* from its low-phase mean, after the threshold was computed.
C6_Witness ==
    /\ dpc /= "threshold"
    /\ At(arr, 0) = MAX_COUNT
    /\ threshold = 50
    /\ SumOver(arr, HighIdx) \div 40 /= threshold

\* The fifth decoded byte differs from the wrapping sum of the first four.
Mismatch == At(data, 4) /= (At(data, 0) + At(data, 1) + At(data, 2) + At(data, 3)) % 256

\* C7: a checksum mismatch gives the Checksum error and never a Reading; a
\* Reading is returned only when the checksum matches; and nothing is
\* converted before the check (no result exists until decode is done).
C7_ChecksumBeforeReading ==
    /\ dpc /= "done" => result = NoResult
    /\ dpc = "done" =>
        /\ Mismatch => result = ErrChecksum
        /\ result.kind = "Reading" => ~Mismatch
        /\ result.kind \in {"Checksum", "Reading"}

\* decode returned Checksum for a train whose first four bytes wrap past 255.
C7_Witness ==
    /\ dpc = "done"
    /\ Mismatch
    /\ At(data, 0) + At(data, 1) + At(data, 2) + At(data, 3) > 255
    /\ result = ErrChecksum

\* C8: the temperature is negative exactly when bit 7 of temp_hi is set, and
\* its magnitude in tenths is temp_hi without that bit, times 256, plus
\* temp_lo; the same holds read off the train (bit 16 is the sign, bits 17..31
\* the magnitude).
C8_TemperatureSignAndMagnitude ==
    (dpc = "done" /\ result.kind = "Reading") =>
        LET hi == At(data, 2)
            lo == At(data, 3)
        IN  /\ result.neg <=> hi >= 128
            /\ result.t_dec = (IF hi >= 128 THEN hi - 128 ELSE hi) * 256 + lo
            /\ result.neg <=> TrainBit(16) = 1
            /\ result.t_dec = TrainNumber(17, 31)
            /\ result.t_dec \in 0..32767

\* A Reading of magnitude 0 with the sign bit set (temp_hi = 128, temp_lo = 0).
C8_Witness ==
    /\ dpc = "done"
    /\ result.kind = "Reading"
    /\ At(data, 2) = 128
    /\ At(data, 3) = 0
    /\ result.neg
    /\ result.t_dec = 0

\* C9 as stated, its example: data bytes [1,148,1,95,245] decode to humidity
\* 65.2 and temperature 35.1.
C9_ExampleAsStated ==
    (dpc = "done" /\ data = <<1, 148, 1, 95, 245>>) =>
        /\ result.kind = "Reading"
        /\ result.h_dec = 652
        /\ result.t_dec = 351

\* C9 amended: humidity in tenths is DecodedBytes[0] * 256 + DecodedBytes[1],
\* never negative, and a function of the first 16 train bits alone; data bytes
\* [2,140,1,95,238] (the train of tests::from_spec_positive_temp) decode to
\* humidity 65.2 and temperature 35.1, and [1,148,1,95,245] to 40.4 and 35.1.
C9_Humidity ==
    (dpc = "done" /\ result.kind = "Reading") =>
        /\ result.h_dec = At(data, 0) * 256 + At(data, 1)
        /\ result.h_dec = TrainNumber(0, 15)
        /\ result.h_dec >= 0
        /\ arr = TrainPositive => data = <<2, 140, 1, 95, 238>>
        /\ data = <<2, 140, 1, 95, 238>> =>
            (result.h_dec = 652 /\ result.t_dec = 351 /\ ~result.neg)
        /\ data = <<1, 148, 1, 95, 245>> =>
            (result.h_dec = 404 /\ result.t_dec = 351 /\ ~result.neg)

\* The test's train decoded to 65.2 and 35.1.
C9_Witness ==
    /\ dpc = "done"
    /\ arr = TrainPositive
    /\ result.kind = "Reading"
    /\ result.h_dec = 652
    /\ result.t_dec = 351

\* C10: data bit k is 1 exactly when its high-phase duration is at least the
\* threshold, and lands in byte k div 8 at bit position 7 - (k mod 8), for all
\* five bytes.
C10_BitsPackedMsbFirst ==
    Decoded =>
        /\ \A n \in 0..4 : At(data, n) \in 0..255
        /\ \A k \in 0..39 :
            BitOf(At(data, k \div 8), 7 - (k % 8)) = 1 <=> At(arr, 3 + 2 * k) >= threshold

\* A bit of the fifth byte whose duration equals the threshold was decoded as 1,
\* next to a shorter one decoded as 0.
C10_Witness ==
    /\ Decoded
    /\ \E k \in 32..39 :
        /\ At(arr, 3 + 2 * k) = threshold
        /\ BitOf(At(data, 4), 7 - (k % 8)) = 1
    /\ \E k \in 32..39 :
        /\ At(arr, 3 + 2 * k) < threshold
        /\ BitOf(At(data, 4), 7 - (k % 8)) = 0

\* C11: the fixture train of tests::sample1 decodes without error to data
\* bytes [2, 95, 0, 124, 221], whose checksum matches, and so to humidity
\* 60.7 and temperature 12.4.
C11_Sample1Decodes ==
    (arr = TrainSample1) =>
        /\ Decoded => data = <<2, 95, 0, 124, 221>>
        /\ dpc = "done" =>
            /\ result.kind = "Reading"
            /\ result.h_dec = 607
            /\ result.t_dec = 124
            /\ ~result.neg
            /\ ~Mismatch

\* decode returned for the sample1 train.
C11_Witness ==
    /\ arr = TrainSample1
    /\ At(arr, 0) = 458
    /\ At(arr, 81) = 425
    /\ dpc = "done"
    /\ result.kind = "Reading"

\* The values `i` takes in `let mut i = start; while i < DHT_PULSES * 2 { ...; i += 2; }`
RECURSIVE LoopIndices(_)
LoopIndices(i) ==
    IF i < DHT_PULSES * 2 THEN {i} \cup LoopIndices(i + 2) ELSE {}

\* `let index = (i - 3) / 16;`
ByteIndex(i) == (i - 3) \div 16

\* `u16::from(data[0]) * 256 + u16::from(data[1])` before any wrapping
HumSum(d) == At(d, 0) * 256 + At(d, 1)

\* `u16::from(data[2] & 0x7f) * 256 + u16::from(data[3])` before any wrapping
TempSum(d) == And7F(At(d, 2)) * 256 + At(d, 3)

\* n is a value of a usize where it is narrowest (32-bit targets): n < 2^32.
FitsUsize(n) == n >= 0 /\ n \div U16 < U16

\* C21: for a train of 82 entries none above MAX_COUNT, decode reads arr only
\* at indices below 82 and data only at indices 0..4, shifts exactly 8 bits
\* into each of the 5 bytes, its threshold sum is at most 40 * 32000 (far
\* below the range of usize), every byte stays below 256, and the two 16-bit
\* sums are at most 65535 and 32767, so that nothing wraps.
C21_DecodeStaysInBounds ==
    (Len(arr) = DHT_PULSES * 2 /\ \A j \in 1..Len(arr) : arr[j] \in 0..MAX_COUNT) =>
        /\ \A i \in LoopIndices(2) \cup LoopIndices(3) : i \in 0..(Len(arr) - 1)
        /\ LoopIndices(3) = {3 + 2 * k : k \in 0..39}
        /\ \A i \in LoopIndices(3) : ByteIndex(i) \in 0..(Len(data) - 1)
        /\ \A b \in 0..(Len(data) - 1) :
              Cardinality({ i \in LoopIndices(3) : ByteIndex(i) = b }) = 8
        /\ Cardinality(LoopIndices(2)) = DHT_PULSES - 1
        /\ ThresholdSum(arr, 2, 0) <= 40 * 32000
        /\ FitsUsize(ThresholdSum(arr, 2, 0))
        /\ dpc /= "threshold" =>
              (threshold * 40 <= ThresholdSum(arr, 2, 0) /\ threshold <= MAX_COUNT)
        /\ \A b \in 0..4 : At(data, b) \in 0..255
        /\ Decoded =>
              \A b \in 0..4 : At(data, b) = TrainNumber(8 * b, 8 * b + 7)
        /\ HumSum(data) <= 65535
        /\ TempSum(data) <= 32767
        /\ (dpc = "done" /\ result.kind = "Reading") =>
              (result.h_dec = HumSum(data) /\ result.t_dec = TempSum(data))

\* Every phase at the ceiling except the short pulses: the threshold sum is
\* 40 * 32000, and the message with every data bit set decodes to the largest
\* humidity and temperature magnitudes.
C21_Witness ==
    /\ dpc = "done"
    /\ \A j \in 0..(DHT_PULSES * 2 - 1) : At(arr, j) \in {0, MAX_COUNT}
    /\ ThresholdSum(arr, 2, 0) = 40 * 32000
    /\ threshold = MAX_COUNT
    /\ data = <<255, 255, 255, 255, 252>>
    /\ result.kind = "Reading"
    /\ result.h_dec = 65535
    /\ result.t_dec = 32767

\* ------------------------------------------------------------------------
\* The bridges' main loops (light/main.rs, temperature/main.rs)
\*
\* pc        light/main.rs                 temperature/main.rs
\* connect   78-91  options, client        102-115
\* spawn     93-103 tokio::spawn           117-127
\* acquire   107    read(pin)              131    read_temperature_and_humidity
\* publish   124-126 publish(..).await     138-140
\* tick      142    interval.tick().await  -
\* sleep_delay  -                          150    sleep(delay).await
\* sleep_err    -                          154    sleep(err_read_delay).await
\* join      145    event_loop_handle.await 159
\* backoff   149    sleep(10 s).await      163
\*
\* The runtime is current_thread: the spawned watcher runs only while the main
\* task is suspended at an await.  The transport is the rumqttc client: a
\* publish hands the message to the event loop over a channel, so once the
\* watcher has ended and dropped the event loop a publish can only fail; while
\* the event loop lives a publish may still be refused.
\*
\* While pc = "acquire" the temperature bridge is inside dht22::read, whose
\* position is cpc:
\* idle      read not entered                       (dht22.rs)
\* ack       wait for the sensor to pull the line low   127-135
\* low       `while gpio.read() == Level::Low`          140-146
\* high      `while gpio.read() == Level::High`         148-154
\* decode    `decode(&pulse_counts)`, position dpc      157
\* returned  read has returned an error of its own
\* ------------------------------------------------------------------------
Bridges == {"light", "temperature"}

\* A runtime that also schedules the watcher inside read.
SuspendedOrReading ==
    {"publish", "tick", "sleep_delay", "sleep_err", "join", "backoff", "acquire"}

\* Awaits of the main task, where the watcher may be scheduled.
Suspended == {"publish", "tick", "sleep_delay", "sleep_err", "join", "backoff"}

\* The inner acquire/publish loop.
InnerLoop == {"acquire", "publish", "tick", "sleep_delay", "sleep_err"}

\* `Duration::from_secs(n)` and `Duration::from_millis(n)`, in milliseconds.
Secs(n) == n * 1000
Millis(n) == n

\* temperature: `let err_read_delay = Duration::from_secs(10);`
err_read_delay == Secs(10)

\* dht22::read: `sleep(Duration::from_millis(500))` and `sleep(Duration::from_millis(20))`
WakeSleep == Millis(500) + Millis(20)

\* A supervisor that reconnects at once.
BackoffNone(b) == 0

\* light: `sleep(Duration::from_secs(10))`; temperature: `sleep(err_read_delay)`
BackoffDelay(b) == IF b = "light" THEN Secs(10) ELSE err_read_delay

\* The three optional paths of the environment: which of them are set.
AllPaths == [ca : BOOLEAN, cert : BOOLEAN, key : BOOLEAN]
NoPaths == [ca |-> FALSE, cert |-> FALSE, key |-> FALSE]

\* A loader that takes the client pair without a CA.
load_certs_any_ca(p) ==
    IF p.key /\ p.cert THEN <<[ca |-> p.ca, client_auth |-> TRUE]>>
    ELSE IF p.ca THEN <<[ca |-> TRUE, client_auth |-> FALSE]>> ELSE <<>>

\* tls::load_certs(ca, client_key, client_cert): None without a CA path, else
\* Some(Simple { ca, alpn: None, client_auth }) with client_auth set exactly
\* when both the key and the certificate path are set.  <<>> is None.
load_certs(p) ==
    IF ~p.ca THEN <<>>
    ELSE <<[ca |-> TRUE, client_auth |-> (p.key /\ p.cert)]>>

\* `if let Some(config) = &client_config { mqttoptions.set_transport(tls_with_config(config)) }`
\* over the default transport of MqttOptions::new, which is plain TCP.
SetTransport(client_config) ==
    IF client_config = <<>> THEN [kind |-> "Tcp", client_auth |-> FALSE]
    ELSE [kind |-> "Tls", client_auth |-> client_config[1].client_auth]

\* Delays `TEMPERATURE_MQTT_DELAY` is given.
Delays == { Secs(n) : n \in 0..MaxDelay }

\* decode's variables while read is not inside decode.
DecIdle ==
    /\ arr = <<>>
    /\ dpc = "idle"
    /\ threshold = 0
    /\ data = <<0, 0, 0, 0, 0>>
    /\ result = NoResult

\* read's variables while the main task is not inside read.
CapIdle ==
    /\ cpc = "idle"
    /\ c = 0
    /\ count = 0
    /\ samples = 0
    /\ msg = <<>>

\* The state after configuration and `let mut previous: Option<bool> = None;`
\* with the paths drawn from P and the publish delay from D (the light bridge
\* has no publish delay).
InitWith(P, D) ==
    /\ bridge \in Bridges
    /\ paths \in P
    /\ delay \in IF bridge = "temperature" THEN D ELSE {0}
    /\ transport = NoTransport
    /\ pc = "connect"
    /\ previous = <<>>
    /\ light = <<>>
    /\ handle = "none"
    /\ running = 0
    /\ clients = 0
    /\ lastEvent = "none"
    /\ sessions = 0
    /\ hist = <<>>
    /\ lastAcq = "none"
    /\ gap = 0
    /\ pubs = 0
    /\ payload = <<>>
    /\ pubOutcome = "none"
    /\ DecIdle
    /\ CapIdle

Init == InitWith({NoPaths}, Delays)

\* `MqttOptions::new`, the transport, `AsyncClient::new(mqttoptions, 50)`
Connect ==
    /\ pc = "connect"
    /\ transport' = SetTransport(load_certs(paths))
    /\ clients' = clients + 1
    /\ sessions' = IF sessions < MaxSessions THEN sessions + 1 ELSE sessions
    /\ pc' = "spawn"
    /\ UNCHANGED <<previous, light, handle, running, lastEvent, hist>>
    /\ UNCHANGED <<cfgVars, acqVars, capVars, decVars>>

\* `let event_loop_handle = tokio::spawn(async move { loop { eventloop.poll() ... } })`
Spawn ==
    /\ pc = "spawn"
    /\ running' = running + 1
    /\ handle' = "running"
    /\ lastEvent' = "none"
    /\ pc' = "acquire"
    /\ UNCHANGED <<transport, previous, light, clients, sessions, hist>>
    /\ UNCHANGED <<cfgVars, acqVars, capVars, decVars>>

\* A change test that does not publish the first probe.
ChangedOnlyKnown(prev, b) == prev /= <<>> /\ prev /= <<b>>

\* The else branch of `if previous.is_some() && previous == Some(light)`
Changed(prev, b) == ~(prev /= <<>> /\ prev = <<b>>)

\* The last MaxHist successful probes: value read, `previous` before it, and
\* whether the publish branch was taken.
Remember(h, rec) ==
    IF Len(h) < MaxHist THEN Append(h, rec) ELSE Append(Tail(h), rec)

\* light: `match read(pin) { Ok(light) => ... }` up to the publish call or the tick
ProbeOk(b) ==
    /\ bridge = "light"
    /\ pc = "acquire"
    /\ IF Changed(previous, b)
       THEN /\ previous' = <<b>>
            /\ light' = <<b>>
            /\ pubs' = 1
            /\ pc' = "publish"
       ELSE /\ UNCHANGED <<previous, light>>
            /\ pubs' = 0
            /\ pc' = "tick"
    /\ hist' = Remember(hist, [val |-> b, prev |-> previous, pub |-> (pc' = "publish")])
    /\ lastAcq' = "ok"
    /\ gap' = 0
    /\ payload' = <<>>
    /\ pubOutcome' = "none"
    /\ UNCHANGED <<transport, handle, running, clients, lastEvent, sessions>>
    /\ UNCHANGED <<cfgVars, capVars, decVars>>

\* A probe error that ends the session.
ProbeErrBreaks ==
    /\ bridge = "light"
    /\ pc = "acquire"
    /\ pc' = "join"
    /\ lastAcq' = "Gpio"
    /\ gap' = 0
    /\ pubs' = 0
    /\ payload' = <<>>
    /\ pubOutcome' = "none"
    /\ UNCHANGED <<transport, previous, light, handle, running, clients, lastEvent, sessions, hist>>
    /\ UNCHANGED <<cfgVars, capVars, decVars>>

\* light: light::read fails (Gpio::new or get), `Err(e) => { error!(...) }`
ProbeErr ==
    /\ bridge = "light"
    /\ pc = "acquire"
    /\ pc' = "tick"
    /\ lastAcq' = "Gpio"
    /\ gap' = 0
    /\ pubs' = 0
    /\ payload' = <<>>
    /\ pubOutcome' = "none"
    /\ UNCHANGED <<transport, previous, light, handle, running, clients, lastEvent, sessions, hist>>
    /\ UNCHANGED <<cfgVars, capVars, decVars>>

\* light: `interval.tick().await`
Tick ==
    /\ pc = "tick"
    /\ pc' = "acquire"
    /\ UNCHANGED <<transport, previous, light, handle, running, clients, lastEvent, sessions, hist>>
    /\ UNCHANGED <<cfgVars, acqVars, capVars, decVars>>

\* ------------------------------------------------------------------------
\* dht22::read, called by the temperature bridge
\* ------------------------------------------------------------------------
\* `Result::Err(ReadingError::Timeout)` and `Err(ReadingError::Gpio(e))`
ErrTimeout == [kind |-> "Timeout", neg |-> FALSE, t_dec |-> 0, h_dec |-> 0]
ErrGpio == [kind |-> "Gpio", neg |-> FALSE, t_dec |-> 0, h_dec |-> 0]

\* `[0; DHT_PULSES * 2]`
ZeroCounts == [j \in 1..(DHT_PULSES * 2) |-> 0]

\* A ceiling test that also refuses a count equal to the ceiling.
TimedOutAtCeiling(n) == n >= MAX_COUNT

\* `if count > MAX_COUNT { return Result::Err(ReadingError::Timeout); }`
TimedOut(n) == n > MAX_COUNT

\* The number of samples for which the line keeps the level a wait loop waits
\* on.  A line that never changes is cut off by the loop at the first count
\* that exceeds the ceiling, so longer holds are the same as this one.
Stuck == MAX_COUNT + 1

\* Messages the sensor sends: 35.1 C, -10.1 C, and one with a wrong checksum.
SensorMessages ==
    { <<2, 140, 1, 95, 238>>, <<2, 140, 128, 101, 115>>, <<2, 140, 1, 95, 237>> }

\* Holds of the acknowledgment wait: the line is already low, it goes low at
\* the last count the ceiling allows, it never goes low.
AckHolds == {0, MAX_COUNT, Stuck}

\* Phases (indices of pulse_counts) that are also tried at the ceiling.
CeilingPhases == {DHT_PULSES * 2 - 1}

\* Holds of phase j while the sensor sends m: the nominal timing, a line that
\* never changes, and for some phases the last count the ceiling allows.
PhaseHolds(m, j) ==
    {At(Encode(m, 80, 80, 50, 26, 70), j), Stuck}
        \cup (IF j \in CeilingPhases THEN {MAX_COUNT} ELSE {})

\* A wait loop that ends when the level changes samples the pin once more than
\* it counts; one that times out returns right after the count.
LoopSamples(held) == IF TimedOut(held) THEN held ELSE held + 1

\* `format!("{:.1}", x)` of an f32 given as sign and tenths: sign, integer part
\* and one decimal.
Format1(neg, tenths) == <<IF neg THEN "-" ELSE "", tenths \div 10, tenths % 10>>

\* A payload with the two fields the other way round.
PayloadSwapped(r) ==
    [temperature |-> Format1(FALSE, r.h_dec), humidity |-> Format1(r.neg, r.t_dec)]

\* `json!({ "temperature": temperature, "humidity": humidity })`
Payload(r) ==
    [temperature |-> Format1(r.neg, r.t_dec), humidity |-> Format1(FALSE, r.h_dec)]

\* read has returned: with an error of its own, or with what decode returned
Returned == cpc = "returned" \/ (cpc = "decode" /\ dpc = "done")

\* The bookkeeping of an acquisition starts afresh.
AcqReset ==
    /\ lastAcq' = "none"
    /\ gap' = 0
    /\ pubs' = 0
    /\ payload' = <<>>
    /\ pubOutcome' = "none"

\* lines 106-112: `Gpio::new()` or `g.get(pin)` fails
ReadGpioErr ==
    /\ bridge = "temperature"
    /\ pc = "acquire"
    /\ cpc = "idle"
    /\ result' = ErrGpio
    /\ cpc' = "returned"
    /\ AcqReset
    /\ UNCHANGED <<c, count, samples, msg>>
    /\ UNCHANGED <<arr, dpc, threshold, data>>
    /\ UNCHANGED <<cfgVars, sessVars>>

\* lines 114-125: the buffer, the wake sequence with its two sleeps, input mode
ReadWake ==
    /\ bridge = "temperature"
    /\ pc = "acquire"
    /\ cpc = "idle"
    /\ arr' = ZeroCounts
    /\ msg' \in SensorMessages
    /\ gap' = gap + WakeSleep
    /\ cpc' = "ack"
    /\ UNCHANGED <<c, count, samples>>
    /\ UNCHANGED <<dpc, threshold, data, result>>
    /\ UNCHANGED <<lastAcq, pubs, payload, pubOutcome>>
    /\ UNCHANGED <<cfgVars, sessVars>>

\* lines 127-135: the acknowledgment wait, the first samples of the acquisition
ReadAck(held) ==
    /\ cpc = "ack"
    /\ count' = held
    /\ samples' = samples + LoopSamples(held)
    /\ IF TimedOut(held)
       THEN /\ result' = ErrTimeout
            /\ cpc' = "returned"
       ELSE /\ UNCHANGED result
            /\ cpc' = "low"
    /\ AcqReset
    /\ UNCHANGED <<c, msg>>
    /\ UNCHANGED <<arr, dpc, threshold, data>>
    /\ UNCHANGED <<cfgVars, sessVars>>

\* lines 140-146: `while gpio.read() == Level::Low { pulse_counts[i] += 1; ... }`
ReadLow(held) ==
    /\ cpc = "low"
    /\ arr' = [arr EXCEPT ![c * 2 + 1] = held]
    /\ samples' = samples + LoopSamples(held)
    /\ IF TimedOut(held)
       THEN /\ result' = ErrTimeout
            /\ cpc' = "returned"
       ELSE /\ UNCHANGED result
            /\ cpc' = "high"
    /\ UNCHANGED <<c, count, msg>>
    /\ UNCHANGED <<dpc, threshold, data>>
    /\ UNCHANGED <<cfgVars, sessVars, acqVars>>

\* lines 148-154: `while gpio.read() == Level::High { pulse_counts[i + 1] += 1; ... }`
\* then the next c, or after the last one line 157, the call of decode
ReadHigh(held) ==
    /\ cpc = "high"
    /\ arr' = [arr EXCEPT ![c * 2 + 2] = held]
    /\ samples' = samples + LoopSamples(held)
    /\ IF TimedOut(held)
       THEN /\ result' = ErrTimeout
            /\ cpc' = "returned"
            /\ UNCHANGED <<c, dpc>>
       ELSE /\ UNCHANGED result
            /\ IF c + 1 < DHT_PULSES
               THEN /\ c' = c + 1
                    /\ cpc' = "low"
                    /\ UNCHANGED dpc
               ELSE /\ UNCHANGED c
                    /\ cpc' = "decode"
                    /\ dpc' = "threshold"
    /\ UNCHANGED <<count, msg>>
    /\ UNCHANGED <<threshold, data>>
    /\ UNCHANGED <<cfgVars, sessVars, acqVars>>

\* The steps of read's sampling: what the line does is the sensor's choice.
ReadSample ==
    \/ \E held \in AckHolds : ReadAck(held)
    \/ \E held \in PhaseHolds(msg, c * 2) : ReadLow(held)
    \/ \E held \in PhaseHolds(msg, c * 2 + 1) : ReadHigh(held)

\* read's locals go out of scope when it has returned.
ReadLeft ==
    /\ arr' = <<>>
    /\ dpc' = "idle"
    /\ threshold' = 0
    /\ data' = <<0, 0, 0, 0, 0>>
    /\ result' = NoResult
    /\ cpc' = "idle"
    /\ c' = 0
    /\ count' = 0
    /\ samples' = 0
    /\ msg' = <<>>

\* temperature: `Ok((temperature, humidity)) => ...` up to the publish call
ReadOk ==
    /\ bridge = "temperature"
    /\ pc = "acquire"
    /\ Returned
    /\ result.kind = "Reading"
    /\ lastAcq' = "ok"
    /\ payload' = <<Payload(result)>>
    /\ pubs' = pubs + 1
    /\ pc' = "publish"
    /\ ReadLeft
    /\ UNCHANGED <<gap, pubOutcome>>
    /\ UNCHANGED <<transport, previous, light, handle, running, clients, lastEvent, sessions, hist>>
    /\ UNCHANGED cfgVars

\* A read error that ends the process.
ReadErrFatal ==
    /\ bridge = "temperature"
    /\ pc = "acquire"
    /\ Returned
    /\ result.kind \in {"Timeout", "Checksum", "Gpio"}
    /\ lastAcq' = result.kind
    /\ pc' = "exited"
    /\ ReadLeft
    /\ UNCHANGED <<gap, pubs, payload, pubOutcome>>
    /\ UNCHANGED <<transport, previous, light, handle, running, clients, lastEvent, sessions, hist>>
    /\ UNCHANGED cfgVars

\* temperature: `Err(e) => { error!(...); sleep(err_read_delay).await; }`
ReadErr ==
    /\ bridge = "temperature"
    /\ pc = "acquire"
    /\ Returned
    /\ result.kind \in {"Timeout", "Checksum", "Gpio"}
    /\ lastAcq' = result.kind
    /\ pc' = "sleep_err"
    /\ ReadLeft
    /\ UNCHANGED <<gap, pubs, payload, pubOutcome>>
    /\ UNCHANGED <<transport, previous, light, handle, running, clients, lastEvent, sessions, hist>>
    /\ UNCHANGED cfgVars

\* temperature: the end of `sleep(delay).await`
SleepDelay ==
    /\ pc = "sleep_delay"
    /\ gap' = gap + delay
    /\ pc' = "acquire"
    /\ UNCHANGED <<lastAcq, pubs, payload, pubOutcome>>
    /\ UNCHANGED <<transport, previous, light, handle, running, clients, lastEvent, sessions, hist>>
    /\ UNCHANGED <<cfgVars, capVars, decVars>>

\* temperature: the end of `sleep(err_read_delay).await` in the inner loop
SleepErr ==
    /\ pc = "sleep_err"
    /\ gap' = gap + err_read_delay
    /\ pc' = "acquire"
    /\ UNCHANGED <<lastAcq, pubs, payload, pubOutcome>>
    /\ UNCHANGED <<transport, previous, light, handle, running, clients, lastEvent, sessions, hist>>
    /\ UNCHANGED <<cfgVars, capVars, decVars>>

\* `Ok(()) => { debug!("Data published!"); }`: the event loop took the message
PublishOk ==
    /\ pc = "publish"
    /\ handle = "running"
    /\ pc' = IF bridge = "light" THEN "tick" ELSE "sleep_delay"
    /\ light' = <<>>
    /\ pubOutcome' = "ok"
    /\ UNCHANGED <<lastAcq, gap, pubs, payload>>
    /\ UNCHANGED <<transport, previous, handle, running, clients, lastEvent, sessions, hist>>
    /\ UNCHANGED <<cfgVars, capVars, decVars>>

\* A publish error that forgets the value it could not publish.
PublishErrForgets ==
    /\ pc = "publish"
    /\ pc' = "join"
    /\ light' = <<>>
    /\ previous' = <<>>
    /\ pubOutcome' = "err"
    /\ UNCHANGED <<lastAcq, gap, pubs, payload>>
    /\ UNCHANGED <<transport, handle, running, clients, lastEvent, sessions, hist>>
    /\ UNCHANGED <<cfgVars, capVars, decVars>>

\* `Err(e) => { error!("Failed to publish data: {}", e); break; }`
PublishErr ==
    /\ pc = "publish"
    /\ pc' = "join"
    /\ light' = <<>>
    /\ pubOutcome' = "err"
    /\ UNCHANGED <<lastAcq, gap, pubs, payload>>
    /\ UNCHANGED <<transport, previous, handle, running, clients, lastEvent, sessions, hist>>
    /\ UNCHANGED <<cfgVars, capVars, decVars>>

\* A join that does not wait for the task.
HandleNotAwaited == TRUE

\* `event_loop_handle.await` completes when the watcher task has ended
HandleFinished == handle = "finished"

\* `if event_loop_handle.await.is_err() { ... }`
Join ==
    /\ pc = "join"
    /\ HandleFinished
    /\ handle' = "none"
    /\ pc' = "backoff"
    /\ UNCHANGED <<transport, previous, light, running, clients, lastEvent, sessions, hist>>
    /\ UNCHANGED <<cfgVars, acqVars, capVars, decVars>>

\* `sleep(Duration::from_secs(10)).await;` and the end of the loop body, where
\* `client` goes out of scope
Backoff ==
    /\ pc = "backoff"
    /\ gap' = gap + BackoffDelay(bridge)
    /\ clients' = clients - 1
    /\ pc' = "connect"
    /\ UNCHANGED <<lastAcq, pubs, payload, pubOutcome>>
    /\ UNCHANGED <<transport, previous, light, handle, running, lastEvent, sessions, hist>>
    /\ UNCHANGED <<cfgVars, capVars, decVars>>

\* watcher: `Ok(Event::Outgoing(_) | Event::Incoming(_)) => {}`
PollOk(e) ==
    /\ handle = "running"
    /\ pc \in Suspended
    /\ lastEvent' = e
    /\ UNCHANGED <<pc, transport, previous, light, handle, running, clients, sessions, hist>>
    /\ UNCHANGED <<cfgVars, acqVars, capVars, decVars>>

\* watcher: `Err(e) => { error!("Error in event loop: {:?}", e); break; }`
PollErr ==
    /\ handle = "running"
    /\ pc \in Suspended
    /\ handle' = "finished"
    /\ running' = running - 1
    /\ UNCHANGED <<pc, transport, previous, light, clients, lastEvent, sessions, hist>>
    /\ UNCHANGED <<cfgVars, acqVars, capVars, decVars>>

\* The steps of the main task.
MainTask ==
    \/ Connect
    \/ Spawn
    \/ \E b \in BOOLEAN : ProbeOk(b)
    \/ ProbeErr
    \/ Tick
    \/ ReadGpioErr
    \/ ReadWake
    \/ ReadSample
    \/ NextDecode
    \/ ReadOk
    \/ ReadErr
    \/ SleepDelay
    \/ SleepErr
    \/ PublishOk
    \/ PublishErr
    \/ Join
    \/ Backoff

\* The steps of the watcher task in which the transport reports no error.
WatcherOk == \E e \in {"Outgoing", "Incoming"} : PollOk(e)

Next ==
    \/ MainTask
    \/ WatcherOk
    \/ PollErr

Spec == Init /\ [][Next]_vars

\* The same program with every combination of the three paths set or unset.
InitTls == InitWith(AllPaths, {Secs(MaxDelay)})
TlsSpec == InitTls /\ [][Next]_vars

\* The runtime resumes a ready task: the main task's reads, publishes and
\* sleeps return, and the watcher's poll is served while the transport is
\* healthy.  Whether and when the transport reports an error is the network's
\* choice; nothing forces it.
FairSpec == Spec /\ WF_vars(MainTask) /\ WF_vars(WatcherOk)

\* ------------------------------------------------------------------------
\* Properties of the main loops
\* ------------------------------------------------------------------------
\* C1: once the watcher task has ended while the inner loop runs, the
\* supervisor eventually reaches the backoff sleep, whatever the sensor
\* returns afterwards.
C1_WatcherEndLeadsToBackoff ==
    (handle = "finished" /\ pc \in InnerLoop) ~> (pc = "backoff")

\* C2: after a publish error the teardown always completes: the supervisor
\* does not stay at the join with the old watcher running, it reaches the
\* backoff sleep with no watcher left.
C2_PublishErrorLeadsToTeardown ==
    (pc = "join") ~> (pc = "backoff" /\ running = 0)

\* C3: at most one watcher task and one client exist at any moment, and a new
\* client and watcher are created only when the previous watcher has ended and
\* the previous client is gone.
C3_AtMostOneSession ==
    /\ running \in {0, 1}
    /\ clients \in {0, 1}
    /\ pc = "connect" => (running = 0 /\ clients = 0)
    /\ pc = "spawn" => running = 0
    /\ pc \in InnerLoop => clients = 1

\* A later session runs, after earlier ones were torn down.
C3_Witness ==
    /\ sessions >= 2
    /\ pc \in InnerLoop
    /\ running = 1
    /\ clients = 1

\* C4: at the start of every session (the client is created, the watcher not
\* yet spawned) the light bridge's previous observed state is unknown.
C4_PreviousUnknownAtSessionStart ==
    (bridge = "light" /\ pc = "spawn") => previous = <<>>

\* C5: a successful probe is followed by a publish attempt exactly when the
\* previous observed state is unknown or differs from the value read; probes
\* true, true, false starting from unknown are published, skipped, published.
C5_PublishOnChangeOnly ==
    /\ \A i \in 1..Len(hist) :
        hist[i].pub <=> (hist[i].prev = <<>> \/ hist[i].prev[1] /= hist[i].val)
    /\ \A i \in 1..(Len(hist) - 2) :
        ( /\ hist[i].prev = <<>>
          /\ hist[i].val = TRUE
          /\ hist[i + 1].val = TRUE
          /\ hist[i + 2].val = FALSE )
        => (hist[i].pub /\ ~hist[i + 1].pub /\ hist[i + 2].pub)
    /\ (bridge = "light" /\ pc = "publish") =>
        ( /\ Len(hist) > 0
          /\ hist[Len(hist)].pub
          /\ light = <<hist[Len(hist)].val>>
          /\ previous = light )

\* The probes true, true, false from unknown, the third one at its publish.
C5_Witness ==
    /\ Len(hist) = 3
    /\ hist[1].prev = <<>>
    /\ hist[1].val = TRUE /\ hist[1].pub
    /\ hist[2].val = TRUE /\ ~hist[2].pub
    /\ hist[3].val = FALSE /\ hist[3].pub
    /\ pc = "publish"

\* ------------------------------------------------------------------------
\* Properties of the acquisition cycle
\* ------------------------------------------------------------------------
\* "you should not attempt a reading more frequently than once every 2 seconds"
MinPeriod == Secs(2)

\* The errors read returns.
ReadErrors == {"Timeout", "Checksum", "Gpio"}

\* C12: whenever the temperature bridge starts sampling the sensor again, the
\* timed sleeps since the previous acquisition (the publish delay, the
\* recovery delay or the backoff, and read's own wake sequence) add up to at
\* least 2 seconds.
C12_TwoSecondsBetweenAcquisitions ==
    (bridge = "temperature" /\ cpc = "ack" /\ lastAcq /= "none") => gap >= MinPeriod

\* C13: in the temperature bridge a successful acquisition is followed by
\* exactly one publish call, of the reading formatted to one decimal, and after
\* a successful publish by a sleep of the configured delay; a failed
\* acquisition is followed by no publish call and by a sleep of the fixed
\* recovery delay, in the same session.
C13_AcquisitionThenPublishOrRecovery ==
    /\ [](bridge = "temperature" =>
            /\ pc = "publish" => (lastAcq = "ok" /\ pubs = 1 /\ payload /= <<>>)
            /\ pc = "sleep_delay" =>
                (lastAcq = "ok" /\ pubs = 1 /\ pubOutcome = "ok" /\ gap = 0)
            /\ pc = "sleep_err" =>
                (lastAcq \in ReadErrors /\ pubs = 0 /\ payload = <<>> /\ gap = 0)
            /\ (pc = "acquire" /\ cpc = "idle") =>
                /\ lastAcq = "none" => (sessions = 1 /\ gap = 0 /\ pubs = 0)
                /\ lastAcq = "ok" =>
                    /\ pubs = 1
                    /\ pubOutcome \in {"ok", "err"}
                    /\ pubOutcome = "ok" => gap = delay
                    /\ pubOutcome = "err" => gap = Secs(10)
                /\ lastAcq \in ReadErrors => (pubs = 0 /\ gap = Secs(10)))
    /\ [][(bridge = "temperature" /\ pc = "acquire" /\ pc' /= "acquire") =>
            IF result.kind = "Reading"
            THEN /\ pc' = "publish"
                 /\ payload' =
                      <<[temperature |-> <<IF result.neg THEN "-" ELSE "",
                                           result.t_dec \div 10, result.t_dec % 10>>,
                         humidity |-> <<"", result.h_dec \div 10, result.h_dec % 10>>]>>
                 /\ msg = <<2, 140, 1, 95, 238>> =>
                      payload' = <<[temperature |-> <<"", 35, 1>>,
                                    humidity |-> <<"", 65, 2>>]>>
                 /\ msg = <<2, 140, 128, 101, 115>> =>
                      payload' = <<[temperature |-> <<"-", 10, 1>>,
                                    humidity |-> <<"", 65, 2>>]>>
            ELSE /\ result.kind \in ReadErrors
                 /\ pc' = "sleep_err"
                 /\ handle' = handle
                 /\ running' = running
                 /\ clients' = clients
                 /\ sessions' = sessions]_vars

\* The reading -10.1 C was published and the configured 2 s were slept; the
\* next acquisition is about to start.
C13_Witness ==
    /\ bridge = "temperature"
    /\ pc = "acquire" /\ cpc = "idle"
    /\ lastAcq = "ok" /\ pubs = 1 /\ pubOutcome = "ok"
    /\ payload = <<[temperature |-> <<"-", 10, 1>>, humidity |-> <<"", 65, 2>>]>>
    /\ delay = Secs(2) /\ gap = delay

\* C14: a connection attempt other than the first is preceded by the 10 s
\* backoff sleep: the supervisor reaches `connect` again only from the backoff,
\* and a client is created after a session only with those 10 s slept.
C14_BackoffBeforeReconnect ==
    /\ []((pc = "connect" /\ sessions >= 1) => gap = Secs(10))
    /\ [][(pc' = "connect" /\ pc /= "connect") =>
            (pc = "backoff" /\ gap' = gap + Secs(10))]_vars
    /\ [][clients' > clients => (sessions = 0 \/ gap = Secs(10))]_vars

\* The temperature bridge is about to connect for the third time.
C14_Witness ==
    /\ bridge = "temperature"
    /\ pc = "connect"
    /\ sessions = 2
    /\ gap = Secs(10)

\* C15: a failed probe of the light bridge makes no publish call, leaves
\* `previous` alone, keeps the client, the watcher and the session, and goes
\* to the tick, after which the next probe follows.
C15_FailedProbeKeepsSession ==
    /\ [][(bridge = "light" /\ pc = "acquire" /\ lastAcq' = "Gpio" /\ pc' /= pc) =>
            /\ pc' = "tick"
            /\ pubs' = 0
            /\ previous' = previous
            /\ light' = light
            /\ hist' = hist
            /\ handle' = handle
            /\ running' = running
            /\ clients' = clients
            /\ sessions' = sessions]_vars
    /\ []((bridge = "light" /\ lastAcq = "Gpio") =>
            (pc \in {"tick", "acquire"} /\ pubs = 0 /\ pubOutcome = "none" /\ clients = 1))
    /\ [][(bridge = "light" /\ pc = "tick" /\ pc' /= pc) => pc' = "acquire"]_vars

\* After a published `true` a probe failed, the tick passed and the next probe
\* is due in the same session.
C15_Witness ==
    /\ bridge = "light"
    /\ pc = "acquire"
    /\ lastAcq = "Gpio"
    /\ previous = <<TRUE>>
    /\ handle = "running"
    /\ sessions = 1

\* Some wait phase of the current capture counted more than the ceiling.
OverCeiling ==
    \/ count > MAX_COUNT
    \/ arr /= <<>> /\ \E j \in 0..(DHT_PULSES * 2 - 1) : At(arr, j) > MAX_COUNT

\* C16: read returns Timeout exactly when a wait phase has counted more than
\* MAX_COUNT, and then at once: the phases after the failing one are still 0,
\* the pin was sampled only up to the failing count, decode was not entered,
\* and neither a further sample nor a Reading can follow.
C16_TimeoutEndsCapture ==
    /\ bridge = "temperature" => (OverCeiling <=> result.kind = "Timeout")
    /\ result.kind = "Timeout" =>
        /\ cpc = "returned"
        /\ dpc = "idle" /\ threshold = 0 /\ data = <<0, 0, 0, 0, 0>>
        /\ count > MAX_COUNT => (arr = ZeroCounts /\ samples = count)
        /\ count <= MAX_COUNT =>
            \E j \in 0..(DHT_PULSES * 2 - 1) :
                /\ At(arr, j) = MAX_COUNT + 1
                /\ \A i \in 0..(DHT_PULSES * 2 - 1) :
                    /\ i < j => (At(arr, i) > 0 /\ At(arr, i) <= MAX_COUNT)
                    /\ i > j => At(arr, i) = 0
                /\ samples = (count + 1) + SumOver(arr, 0..(j - 1)) + j + At(arr, j)
        /\ ~ENABLED ReadSample
        /\ ~ENABLED NextDecode
        /\ ~ENABLED ReadOk
        /\ ENABLED ReadErr

\* The acknowledgment wait ended at the last count the ceiling allows, and the
\* high phase of pulse 20 was the one that never ended.
C16_Witness ==
    /\ result.kind = "Timeout"
    /\ count = MAX_COUNT
    /\ At(arr, 41) = MAX_COUNT + 1
    /\ At(arr, 40) = 50
    /\ At(arr, 42) = 0

\* C17: the supervisor is always at one of its nine positions and always has a
\* next step: one of the main task, or at the join the wait for the watcher,
\* which is still running.
C17_NoTerminalState ==
    /\ pc \in {"connect", "spawn", "acquire", "publish", "tick", "sleep_delay",
               "sleep_err", "join", "backoff"}
    /\ cpc \in {"idle", "ack", "low", "high", "decode", "returned"}
    /\ \/ ENABLED MainTask
       \/ /\ pc = "join"
          /\ handle = "running"
          /\ running = 1
          /\ ENABLED PollErr

\* A session was already lost to a publish and watcher error, and in a later
\* session a checksum error has just been answered by the recovery sleep.
C17_Witness ==
    /\ bridge = "temperature"
    /\ sessions >= 2
    /\ lastAcq = "Checksum"
    /\ pc = "sleep_err"
    /\ handle = "finished"

\* C18: every session's transport is TLS exactly when the CA path is set, with
\* client authentication exactly when the CA, the client certificate and the
\* client key paths are all set, and plain TCP without a CA; the paths do not
\* change, so every reconnect makes the same choice.
C18_TransportFollowsPaths ==
    sessions >= 1 =>
        /\ transport.kind \in {"Tcp", "Tls"}
        /\ transport.kind = "Tls" <=> paths.ca
        /\ transport.client_auth <=> (paths.ca /\ paths.cert /\ paths.key)
        /\ ~paths.ca => transport = [kind |-> "Tcp", client_auth |-> FALSE]

\* A reconnect with the client certificate and key set but no CA.
C18_Witness ==
    /\ sessions >= 2
    /\ pc = "acquire"
    /\ paths = [ca |-> FALSE, cert |-> TRUE, key |-> TRUE]
    /\ transport.kind = "Tcp"

\* C19: while the temperature bridge is inside read the watcher takes no
\* step, and every step of the watcher happens with the main task at an await,
\* outside read.
C19_CaptureDoesNotYield ==
    /\ [][(bridge = "temperature" /\ pc = "acquire") =>
            /\ pc' = "acquire" => (lastEvent' = lastEvent /\ handle' = handle
                                    /\ running' = running)
            /\ pc' /= "acquire" => Returned]_vars
    /\ [][(running' < running \/ (lastEvent' /= lastEvent /\ lastEvent' /= "none")) =>
            /\ pc' = pc
            /\ pc \in {"publish", "tick", "sleep_delay", "sleep_err", "join", "backoff"}
            /\ cpc = "idle"
            /\ bridge = "temperature" => pc /= "tick"]_vars

\* The watcher is alive and has handled an incoming packet; the capture is at
\* the high phase of pulse 20.
C19_Witness ==
    /\ cpc = "high"
    /\ c = 20
    /\ handle = "running"
    /\ lastEvent = "Incoming"
    /\ sessions = 2

\* The indices of the remembered probes that were handed to publish.
HandedIdx == { i \in 1..Len(hist) : hist[i].pub }

\* C20: `previous` is set when a value is handed to publish and at no other
\* time, so it always is the last value handed to publish, whatever the
\* publish returned; a probe that reads the same value as the probe before is
\* never published, also across a reconnect.
C20_MemoNeverRolledBack ==
    /\ [](bridge = "light" =>
            /\ pc = "publish" => (previous /= <<>> /\ previous = light)
            /\ HandedIdx /= {} =>
                previous = <<hist[CHOOSE i \in HandedIdx : \A k \in HandedIdx : k <= i].val>>
            /\ (HandedIdx = {} /\ Len(hist) < MaxHist) => (previous = <<>> /\ hist = <<>>)
            /\ \A i \in 1..(Len(hist) - 1) :
                /\ hist[i + 1].prev = <<hist[i].val>>
                /\ hist[i + 1].val = hist[i].val => ~hist[i + 1].pub)
    /\ [][previous' /= previous =>
            (pc = "acquire" /\ pc' = "publish" /\ previous' = light' /\ pubs' = 1)]_vars

\* The only publish so far, of `true`, failed; after the reconnect the pin
\* still reads `true` and the probe was not published.
C20_Witness ==
    /\ bridge = "light"
    /\ sessions = 2
    /\ pc = "tick"
    /\ Len(hist) = 2
    /\ hist[1].val = TRUE /\ hist[1].pub
    /\ hist[2].val = TRUE /\ ~hist[2].pub
    /\ previous = <<TRUE>>

====
